---- MODULE Spec2Model ----
(***************************************************************************)
(* Model of the reverse-text TCP client (reversetcpclient.py) and server   *)
(* (reversetcpserver.py).  Bytes are integers 0..255, byte strings and    *)
(* texts are sequences; an ASCII character is modelled by its code point.  *)
(***************************************************************************)
EXTENDS Integers, Sequences, FiniteSets, TLC

\* ------------------------------------------------------------------ bounds
\* Longest input text of a protocol run (besides the "hello world" scenario).
MaxLen == 2
\* Largest chunk-size parameter (Lmin <= Lmax <= MaxL) of a protocol run.
MaxL == 2
\* Longest input text and largest chunk size of the splitting specification.
MaxSplitLen == 4
MaxSplitL == 3
\* Largest length/count field a raw peer writes and frames it may send.
MaxRawLen == 2
MaxRawSends == 3
\* Frames the raw peer may send beside a run of the client.
MaxIsoSends == 2
\* Largest block count a raw peer announces (it announces that or one less),
\* and frames it may send, to a server that is being shut down.
MaxShutBlocks == 2
MaxShutSends == 3
\* Longest payload and largest small block count given to the codecs.
MaxCodecLen == 2
MaxCodecN == 2

\* ------------------------------------------------------- program constants
INITIALIZATION == 1
AGREE == 2
REVERSE_REQUEST == 3
REVERSE_ANSWER == 4

\* ------------------------------------------------------------------ helpers
Min(a, b) == IF a <= b THEN a ELSE b

\* Python slice s[a:b] (0-based, end exclusive, clipped to the length).
Slice(s, a, b) == SubSeq(s, a + 1, Min(b, Len(s)))

\* s[::-1]
Reverse(s) == [k \in 1..Len(s) |-> s[Len(s) + 1 - k]]

RECURSIVE Concat(_)
\* Concatenation of a sequence of sequences, in order.
Concat(ss) == IF ss = <<>> THEN <<>> ELSE Head(ss) \o Concat(Tail(ss))

\* The 4-byte field is written least significant byte first.
PackIle(n) == <<n % 256, (n \div 256) % 256, (n \div 65536) % 256,
                (n \div 16777216) % 256>>

\* struct.pack('!H', n) and struct.pack('!I', n): big-endian, fixed width.
PackH(n) == <<(n \div 256) % 256, n % 256>>
PackI(n) == <<(n \div 16777216) % 256, (n \div 65536) % 256,
              (n \div 256) % 256, n % 256>>
\* struct.unpack('!H', b)[0] and struct.unpack('!I', b)[0].
UnpackH(b) == b[1] * 256 + b[2]
UnpackI(b) == ((b[1] * 256 + b[2]) * 256 + b[3]) * 256 + b[4]

\* bytes.decode('ascii') / str.encode('ascii') succeed only on 7-bit values.
IsAscii(s) == \A k \in 1..Len(s) : s[k] < 128
\* The check has no lower limit: control characters pass.
IsPrintableLoose(s) == \A k \in 1..Len(s) : s[k] <= 126

\* The client's input check: every character is printable ASCII.
IsPrintable(s) == \A k \in 1..Len(s) : 32 <= s[k] /\ s[k] <= 126

\* Result of a parse_packet call: (None, None), (type, value), or an exception
\* raised by decode('ascii').
ParseNone == [none |-> TRUE, raised |-> FALSE, ptype |-> 0, num |-> 0, text |-> <<>>]
ParseRaise == [none |-> TRUE, raised |-> TRUE, ptype |-> 0, num |-> 0, text |-> <<>>]
ParseNum(t, n) == [none |-> FALSE, raised |-> FALSE, ptype |-> t, num |-> n, text |-> <<>>]
ParseText(t, s) == [none |-> FALSE, raised |-> FALSE, ptype |-> t, num |-> 0, text |-> s]

\* packet_type == t for a parse result (an exception compares nothing).
TypeIs(p, t) == ~p.raised /\ ~p.none /\ p.ptype = t

\* ------------------------------------------------------------- client codec
client_create_packet_init(n) == PackH(INITIALIZATION) \o PackI(n)
client_create_packet_request(data) == PackH(REVERSE_REQUEST) \o PackI(Len(data)) \o data

client_parse_packet(data) ==
    IF Len(data) < 2 THEN ParseNone
    ELSE LET packet_type == UnpackH(Slice(data, 0, 2)) IN
         IF packet_type = AGREE THEN ParseNum(AGREE, 0)
         ELSE IF packet_type = REVERSE_ANSWER /\ Len(data) >= 6
         THEN LET len == UnpackI(Slice(data, 2, 6)) IN
              IF Len(data) >= 6 + len
              THEN IF IsAscii(Slice(data, 6, 6 + len))
                   THEN ParseText(REVERSE_ANSWER, Slice(data, 6, 6 + len))
                   ELSE ParseRaise
              ELSE ParseNone
         ELSE ParseNone

\* ------------------------------------------------------------- server codec
\* The answer carries the request's tag.
server_create_packet_answer_tag(data) == PackH(REVERSE_REQUEST) \o PackI(Len(data)) \o data

\* The Agree carries the tag of the Init.
server_create_packet_agree_init == PackH(INITIALIZATION)

server_create_packet_agree == PackH(AGREE)
server_create_packet_answer(data) == PackH(REVERSE_ANSWER) \o PackI(Len(data)) \o data

server_parse_packet(data) ==
    IF Len(data) < 2 THEN ParseNone
    ELSE LET packet_type == UnpackH(Slice(data, 0, 2)) IN
         IF packet_type = INITIALIZATION /\ Len(data) >= 6
         THEN ParseNum(INITIALIZATION, UnpackI(Slice(data, 2, 6)))
         ELSE IF packet_type = REVERSE_REQUEST /\ Len(data) >= 6
         THEN LET len == UnpackI(Slice(data, 2, 6)) IN
              IF Len(data) >= 6 + len
              THEN IF IsAscii(Slice(data, 6, 6 + len))
                   THEN ParseText(REVERSE_REQUEST, Slice(data, 6, 6 + len))
                   ELSE ParseRaise
              ELSE ParseNone
         ELSE ParseNone

\* -------------------------------------------------------------------- state
Conns == {"c1", "c2"}      \* c1: the client program's connection; c2: a raw peer's
NoThread == "none"

VARIABLES
    \* client run (reversetcpclient.py main)
    cpc,              \* position of the client in main
    content, Lmin, Lmax,
    blocks, start_index, reversed_blocks, i,
    c_header, c_length, reversed_data,
    output,           \* the output file: [written, text]
    \* transport, per connection
    status,           \* "none" | "pending" (connected, in the backlog) | "accepted"
    c2s, s2c,         \* bytes sent and not yet received, per direction
    cclosed, sclosed, \* the client's / the server's end is closed
    \* server (reversetcpserver.py)
    server_running, client_connections, client_threads,
    a_thread,         \* thread started by the accept loop and not yet appended
    wpc,              \* position of each worker in handle_client
    n_blocks, block_index, header, length, text_data,
    \* raw peers
    raw_sends,        \* frames the raw peers have sent so far
    \* history (not read by the program)
    c_sent,           \* packets the client has passed to sendall, in order
    agree_seen,       \* the client has received an Agree
    s_sent,           \* packets each worker has passed to send, in order
    first_read,       \* what each worker's first recv returned
    reqs,             \* Requests each worker has received completely
    result,           \* how each session ended: "none" | "done" | "failed"
    cause,            \* which exit of handle_client a failed session took
    clean,            \* no timeout, error or split delivery on the connection so far
    \* main thread of the server once a termination signal has arrived
    spc,              \* position in shutdown_server ("run": no signal yet)
    to_close,         \* rest of the copy of client_connections being closed
    to_join,          \* rest of the copy of client_threads being joined
    \* history of a shutdown (not read by the program)
    tracked,          \* the connections the copy of client_connections held
    at_signal,        \* each session as it was when the flag was set: where its
                      \* worker was, packets sent, Requests received in full
    \* one use of the codecs
    codec             \* [side, kind, msg, bytes, cut, out]

clientVars == <<cpc, content, Lmin, Lmax, blocks, start_index, reversed_blocks, i,
                c_header, c_length, reversed_data, output, c_sent, agree_seen>>
netVars == <<status, c2s, s2c, cclosed, sclosed>>
globalVars == <<server_running, client_connections, client_threads, a_thread>>
workerVars == <<wpc, n_blocks, block_index, header, length, text_data,
                s_sent, first_read, reqs, result, cause>>
serverVars == <<globalVars, workerVars>>
shutdownVars == <<spc, to_close, to_join, tracked, at_signal>>
vars == <<clientVars, netVars, serverVars, raw_sends, clean, shutdownVars, codec>>

\* ------------------------------------------------------------------- inputs
Alphabet == {97, 98}
Texts(n) == UNION {[1..k -> Alphabet] : k \in 0..n}
Hello == <<104, 101, 108, 108, 111, 32, 119, 111, 114, 108, 100>>   \* "hello world"
NonPrintable == <<97, 10>>                                          \* "a\n"

Params(n) == {p \in (1..n) \X (1..n) : p[1] <= p[2]}
Input(t, p) == [content |-> t, Lmin |-> p[1], Lmax |-> p[2]]

\* Inputs of a protocol run.
RunInputs == {Input(t, p) : t \in Texts(MaxLen) \cup {NonPrintable}, p \in Params(MaxL)}
                 \cup {Input(Hello, <<5, 5>>)}
\* Inputs of the splitting loop alone.
SplitInputs == {Input(t, p) : t \in Texts(MaxSplitLen) \cup {NonPrintable}, p \in Params(MaxSplitL)}

\* A session as the signal handler finds it, before any signal.
NoSession == [wpc |-> "idle", reqs |-> 0, sent |-> 0, begun |-> FALSE]
\* No use of the codecs yet.
NoCodec == [kind |-> "none", num |-> 0, text |-> <<>>, bytes |-> <<>>, cut |-> 0,
            decoded |-> FALSE, out |-> ParseNone]

NoneBlock == [isNone |-> TRUE, text |-> <<>>]
SomeBlock(t) == [isNone |-> FALSE, text |-> t]

InitWith(inputs) ==
    /\ \E in \in inputs : content = in.content /\ Lmin = in.Lmin /\ Lmax = in.Lmax
    /\ cpc = "validate"
    /\ blocks = <<>> /\ start_index = 0 /\ reversed_blocks = <<>> /\ i = 0
    /\ c_header = <<>> /\ c_length = 0 /\ reversed_data = <<>>
    /\ output = [written |-> FALSE, text |-> <<>>]
    /\ c_sent = <<>> /\ agree_seen = FALSE
    /\ status = [c \in Conns |-> "none"]
    /\ c2s = [c \in Conns |-> <<>>] /\ s2c = [c \in Conns |-> <<>>]
    /\ cclosed = [c \in Conns |-> FALSE] /\ sclosed = [c \in Conns |-> FALSE]
    /\ server_running = TRUE
    /\ client_connections = <<>> /\ client_threads = <<>> /\ a_thread = NoThread
    /\ wpc = [c \in Conns |-> "idle"]
    /\ n_blocks = [c \in Conns |-> 0] /\ block_index = [c \in Conns |-> 0]
    /\ header = [c \in Conns |-> <<>>] /\ length = [c \in Conns |-> 0]
    /\ text_data = [c \in Conns |-> <<>>]
    /\ s_sent = [c \in Conns |-> <<>>]
    /\ first_read = [c \in Conns |-> [kind |-> "none", data |-> <<>>]]
    /\ reqs = [c \in Conns |-> 0]
    /\ result = [c \in Conns |-> "none"]
    /\ cause = [c \in Conns |-> "none"]
    /\ raw_sends = 0
    /\ clean = [c \in Conns |-> TRUE]
    /\ spc = "run" /\ to_close = <<>> /\ to_join = <<>>
    /\ tracked = {} /\ at_signal = [c \in Conns |-> NoSession]
    /\ codec = NoCodec

\* ---------------------------------------------------------------- transport
\* What a blocking recv(want) on a stream holding buf can return: a non-empty
\* prefix of at most want bytes (the rest has not arrived yet), b'' when the
\* peer has closed and nothing is left, or an exception (a timeout where the
\* socket has one; a reset once the peer has closed).
RecvOutcomes(buf, want, peerClosed, hasTimeout) ==
    {[kind |-> "data", n |-> m] : m \in 1..Min(want, Len(buf))}
        \cup (IF buf = <<>> /\ peerClosed THEN {[kind |-> "eof", n |-> 0]} ELSE {})
        \cup (IF hasTimeout \/ peerClosed THEN {[kind |-> "err", n |-> 0]} ELSE {})

\* The recv delivered everything that had been sent, up to what was asked for.
Whole(o, buf, want) == o.kind = "data" /\ o.n = Min(want, Len(buf))

Take(buf, n) == SubSeq(buf, 1, n)
Drop(buf, n) == SubSeq(buf, n + 1, Len(buf))

\* A blocking send of a whole packet: queued entirely, or lost with an
\* exception once the peer's end is closed.
SendOutcomes(peerClosed) == IF peerClosed THEN {"ok", "err"} ELSE {"ok"}
Queue(buf, packet, peerClosed) == IF peerClosed THEN buf ELSE buf \o packet

\* conn.recv(want) and conn.send in a worker.  The accepted socket has no
\* timeout.  Once the signal handler has shut the socket down and closed it,
\* a recv returns b'' (it was blocked at the shutdown) or raises, and a send
\* raises.
ConnRecv(c, want) ==
    IF sclosed[c] THEN {[kind |-> "eof", n |-> 0], [kind |-> "err", n |-> 0]}
    ELSE RecvOutcomes(c2s[c], want, cclosed[c], FALSE)
ConnSend(c) == IF sclosed[c] THEN {"err"} ELSE SendOutcomes(cclosed[c])

\* ------------------------------------------------------------------- client
\* randint with its upper bound off by one.
BlockSizesAbove(lo, hi) == lo..(hi + 1)

\* The sizes random.randint(Lmin, Lmax) can return.
BlockSizes(lo, hi) == lo..hi

\* The client ends its run: the with-block closes the socket.
ClientEnd ==
    /\ cpc' = "end"
    /\ cclosed' = [cclosed EXCEPT !["c1"] = TRUE]

\* A failed exchange is tried again instead of ending the loop.
ClientRetry == cpc' = "send_req"

\* The client leaves the chunk loop (a break, or the loop is exhausted).
ClientBreak == cpc' = "finish"

\* Steps 1-2: read the text and check that it is printable ASCII.
ClientValidate ==
    /\ cpc = "validate"
    /\ cpc' = IF IsPrintable(content) THEN "split" ELSE "exit1"
    /\ UNCHANGED <<content, Lmin, Lmax, blocks, start_index, reversed_blocks, i,
                   c_header, c_length, reversed_data, output, c_sent, agree_seen>>
    /\ UNCHANGED <<netVars, serverVars, raw_sends, clean>>
    /\ UNCHANGED <<shutdownVars, codec>>

\* Step 3: one iteration of the splitting loop, or its exit.
ClientSplit ==
    /\ cpc = "split"
    /\ IF start_index < Len(content)
       THEN \E block_size \in BlockSizes(Lmin, Lmax) :
               LET end_index == Min(start_index + block_size, Len(content)) IN
               /\ blocks' = Append(blocks, Slice(content, start_index, end_index))
               /\ start_index' = end_index
               /\ UNCHANGED <<cpc, reversed_blocks>>
       ELSE /\ reversed_blocks' = [k \in 1..Len(blocks) |-> NoneBlock]
            /\ cpc' = "connect"
            /\ UNCHANGED <<blocks, start_index>>
    /\ UNCHANGED <<content, Lmin, Lmax, i, c_header, c_length, reversed_data,
                   output, c_sent, agree_seen>>
    /\ UNCHANGED <<netVars, serverVars, raw_sends, clean>>
    /\ UNCHANGED <<shutdownVars, codec>>

\* Step 4: connect; a failure returns.
ClientConnect ==
    /\ cpc = "connect"
    /\ \E ok \in BOOLEAN :
          IF ok
          THEN /\ status' = [status EXCEPT !["c1"] = "pending"]
               /\ cpc' = "send_init"
               /\ UNCHANGED <<cclosed, clean>>
          ELSE /\ ClientEnd
               /\ clean' = [clean EXCEPT !["c1"] = FALSE]
               /\ UNCHANGED status
    /\ UNCHANGED <<content, Lmin, Lmax, blocks, start_index, reversed_blocks, i,
                   c_header, c_length, reversed_data, output, c_sent, agree_seen>>
    /\ UNCHANGED <<c2s, s2c, sclosed, serverVars, raw_sends>>
    /\ UNCHANGED <<shutdownVars, codec>>

\* Step 5: send Init{n_blocks}; a failure returns.
ClientSendInit ==
    /\ cpc = "send_init"
    /\ \E o \in SendOutcomes(sclosed["c1"]) :
          LET init_packet == client_create_packet_init(Len(blocks)) IN
          IF o = "ok"
          THEN /\ c2s' = [c2s EXCEPT !["c1"] = Queue(@, init_packet, sclosed["c1"])]
               /\ c_sent' = Append(c_sent, init_packet)
               /\ cpc' = "recv_agree"
               /\ UNCHANGED <<cclosed, clean>>
          ELSE /\ ClientEnd
               /\ clean' = [clean EXCEPT !["c1"] = FALSE]
               /\ UNCHANGED <<c2s, c_sent>>
    /\ UNCHANGED <<content, Lmin, Lmax, blocks, start_index, reversed_blocks, i,
                   c_header, c_length, reversed_data, output, agree_seen>>
    /\ UNCHANGED <<status, s2c, sclosed, serverVars, raw_sends>>
    /\ UNCHANGED <<shutdownVars, codec>>

\* Any 2-byte reply is accepted.
agree_ok_any(data) == Len(data) >= 2

\* The reply to the Init is accepted: 2 bytes that parse as an Agree.
agree_ok(data) == Len(data) >= 2 /\ TypeIs(client_parse_packet(data), AGREE)

\* Step 6: recv(2) and check that it is an Agree; anything else returns.
ClientRecvAgree ==
    /\ cpc = "recv_agree"
    /\ \E o \in RecvOutcomes(s2c["c1"], 2, sclosed["c1"], TRUE) :
          LET data == Take(s2c["c1"], o.n) IN
          /\ s2c' = [s2c EXCEPT !["c1"] = Drop(@, o.n)]
          /\ clean' = [clean EXCEPT !["c1"] = @ /\ Whole(o, s2c["c1"], 2)]
          /\ agree_seen' = (o.kind = "data" /\ data = PackH(AGREE))
          /\ IF o.kind = "data" /\ agree_ok(data)
             THEN /\ i' = 0
                  /\ cpc' = IF Len(blocks) > 0 THEN "send_req" ELSE "finish"
                  /\ UNCHANGED cclosed
             ELSE /\ ClientEnd
                  /\ UNCHANGED i
    /\ UNCHANGED <<content, Lmin, Lmax, blocks, start_index, reversed_blocks,
                   c_header, c_length, reversed_data, output, c_sent>>
    /\ UNCHANGED <<status, c2s, sclosed, serverVars, raw_sends>>
    /\ UNCHANGED <<shutdownVars, codec>>

\* Step 7, first part: send Request{blocks[i]}; a failure breaks.
ClientSendRequest ==
    /\ cpc = "send_req"
    /\ \E o \in SendOutcomes(sclosed["c1"]) :
          LET request_data == client_create_packet_request(blocks[i + 1]) IN
          IF o = "ok"
          THEN /\ c2s' = [c2s EXCEPT !["c1"] = Queue(@, request_data, sclosed["c1"])]
               /\ c_sent' = Append(c_sent, request_data)
               /\ cpc' = "recv_hdr"
               /\ UNCHANGED clean
          ELSE /\ ClientBreak
               /\ clean' = [clean EXCEPT !["c1"] = FALSE]
               /\ UNCHANGED <<c2s, c_sent>>
    /\ UNCHANGED <<content, Lmin, Lmax, blocks, start_index, reversed_blocks, i,
                   c_header, c_length, reversed_data, output, agree_seen>>
    /\ UNCHANGED <<status, s2c, cclosed, sclosed, serverVars, raw_sends>>
    /\ UNCHANGED <<shutdownVars, codec>>

\* Step 7, second part: recv(6) for the answer header; short or failed breaks.
ClientRecvHeader ==
    /\ cpc = "recv_hdr"
    /\ \E o \in RecvOutcomes(s2c["c1"], 6, sclosed["c1"], TRUE) :
          LET data == Take(s2c["c1"], o.n) IN
          /\ s2c' = [s2c EXCEPT !["c1"] = Drop(@, o.n)]
          /\ clean' = [clean EXCEPT !["c1"] = @ /\ Whole(o, s2c["c1"], 6)]
          /\ IF o.kind = "data" /\ Len(data) >= 6
             THEN /\ c_header' = data
                  /\ c_length' = UnpackI(Slice(data, 2, 6))
                  /\ reversed_data' = <<>>
                  /\ cpc' = "recv_body"
             ELSE /\ ClientBreak
                  /\ UNCHANGED <<c_header, c_length, reversed_data>>
    /\ UNCHANGED <<content, Lmin, Lmax, blocks, start_index, reversed_blocks, i,
                   output, c_sent, agree_seen>>
    /\ UNCHANGED <<status, c2s, cclosed, sclosed, serverVars, raw_sends>>
    /\ UNCHANGED <<shutdownVars, codec>>

\* Step 7, third part: accumulate the declared number of payload bytes, then
\* parse the answer and store it at index i.
ClientRecvBody ==
    /\ cpc = "recv_body"
    /\ IF Len(reversed_data) < c_length
       THEN \E o \in RecvOutcomes(s2c["c1"], c_length - Len(reversed_data),
                                  sclosed["c1"], TRUE) :
               /\ s2c' = [s2c EXCEPT !["c1"] = Drop(@, o.n)]
               /\ clean' = [clean EXCEPT !["c1"] = @ /\ o.kind = "data"]
               /\ IF o.kind = "data"
                  THEN /\ reversed_data' = reversed_data \o Take(s2c["c1"], o.n)
                       /\ UNCHANGED cpc
                  ELSE /\ ClientBreak
                       /\ UNCHANGED reversed_data
               /\ UNCHANGED <<reversed_blocks, i>>
       ELSE LET p == client_parse_packet(c_header \o reversed_data) IN
            /\ IF TypeIs(p, REVERSE_ANSWER)
               THEN /\ reversed_blocks' = [reversed_blocks EXCEPT ![i + 1] = SomeBlock(p.text)]
                    /\ i' = i + 1
                    /\ cpc' = IF i + 1 < Len(blocks) THEN "send_req" ELSE "finish"
               ELSE /\ ClientBreak
                    /\ UNCHANGED <<reversed_blocks, i>>
            /\ UNCHANGED <<s2c, clean, reversed_data>>
    /\ UNCHANGED <<content, Lmin, Lmax, blocks, start_index, c_header, c_length,
                   output, c_sent, agree_seen>>
    /\ UNCHANGED <<status, c2s, cclosed, sclosed, serverVars, raw_sends>>
    /\ UNCHANGED <<shutdownVars, codec>>

\* any(...) in place of all(...).
any_received(rb) == \E k \in 1..Len(rb) : ~rb[k].isNone

\* all(block is not None for block in reversed_blocks)
all_received(rb) == \A k \in 1..Len(rb) : ~rb[k].isNone

\* Step 8: write the output file only if every block holds a result.
ClientFinish ==
    /\ cpc = "finish"
    /\ output' = IF all_received(reversed_blocks)
                 THEN [written |-> TRUE,
                       text |-> Concat([k \in 1..Len(reversed_blocks) |-> reversed_blocks[k].text])]
                 ELSE output
    /\ ClientEnd
    /\ UNCHANGED <<content, Lmin, Lmax, blocks, start_index, reversed_blocks, i,
                   c_header, c_length, reversed_data, c_sent, agree_seen>>
    /\ UNCHANGED <<status, c2s, s2c, sclosed, serverVars, raw_sends, clean>>
    /\ UNCHANGED <<shutdownVars, codec>>

\* ------------------------------------------------------------------- server
\* list.remove(x) guarded by "if x in list": the first occurrence goes.
RECURSIVE Remove(_, _)
Remove(list, x) ==
    IF list = <<>> THEN <<>>
    ELSE IF Head(list) = x THEN Tail(list)
    ELSE <<Head(list)>> \o Remove(Tail(list), x)

\* The failure is not confined to the session: every running session is
\* abandoned with it.
FailAll(c, why) ==
    LET running(x) == x = c \/ wpc[x] \notin {"idle", "finally", "exited"} IN
    /\ wpc' = [x \in Conns |-> IF running(x) THEN "finally" ELSE wpc[x]]
    /\ result' = [x \in Conns |-> IF running(x) THEN "failed" ELSE result[x]]
    /\ cause' = [x \in Conns |-> IF running(x) THEN why ELSE cause[x]]

\* The failure is noted and the block loop goes on.
FailContinue(c, why) ==
    /\ wpc' = [wpc EXCEPT ![c] = "loop"]
    /\ result' = [result EXCEPT ![c] = "failed"]
    /\ cause' = [cause EXCEPT ![c] = why]

\* The session is abandoned: a return, a break or an exception leads to the
\* finally block.
Fail(c, why) ==
    /\ wpc' = [wpc EXCEPT ![c] = "finally"]
    /\ result' = [result EXCEPT ![c] = "failed"]
    /\ cause' = [cause EXCEPT ![c] = why]

\* start_server: accept a connection and start its worker thread; the loop
\* runs while server_running and while no signal handler has taken over the
\* main thread.
Accept(c) ==
    /\ spc = "run"
    /\ server_running
    /\ a_thread = NoThread
    /\ status[c] = "pending"
    /\ status' = [status EXCEPT ![c] = "accepted"]
    /\ wpc' = [wpc EXCEPT ![c] = "start"]
    /\ a_thread' = c
    /\ UNCHANGED <<server_running, client_connections, client_threads>>
    /\ UNCHANGED <<n_blocks, block_index, header, length, text_data,
                   s_sent, first_read, reqs, result, cause>>
    /\ UNCHANGED <<clientVars, c2s, s2c, cclosed, sclosed, raw_sends, clean>>
    /\ UNCHANGED <<shutdownVars, codec>>

\* start_server: record the started thread (unless a signal handler that ends in
\* sys.exit has taken over the main thread in between).
AppendThread ==
    /\ spc = "run"
    /\ a_thread # NoThread
    /\ client_threads' = Append(client_threads, a_thread)
    /\ a_thread' = NoThread
    /\ UNCHANGED <<server_running, client_connections>>
    /\ UNCHANGED <<clientVars, netVars, workerVars, raw_sends, clean>>
    /\ UNCHANGED <<shutdownVars, codec>>

\* handle_client entry: register the connection.
WorkerStart(c) ==
    /\ wpc[c] = "start"
    /\ client_connections' = Append(client_connections, c)
    /\ wpc' = [wpc EXCEPT ![c] = "recv_init"]
    /\ UNCHANGED <<server_running, client_threads, a_thread>>
    /\ UNCHANGED <<n_blocks, block_index, header, length, text_data,
                   s_sent, first_read, reqs, result, cause>>
    /\ UNCHANGED <<clientVars, netVars, raw_sends, clean>>
    /\ UNCHANGED <<shutdownVars, codec>>

\* Six bytes that parse as any packet are accepted.
init_ok_anytype(data) == Len(data) >= 6 /\ ~server_parse_packet(data).none

\* The first read is accepted: 6 bytes that parse as an Init.
init_ok(data) == Len(data) >= 6 /\ TypeIs(server_parse_packet(data), INITIALIZATION)

\* 1. recv(6) and parse the Init; anything else returns.
WorkerRecvInit(c) ==
    /\ wpc[c] = "recv_init"
    /\ \E o \in ConnRecv(c, 6) :
          LET data == Take(c2s[c], o.n)
              p == server_parse_packet(data) IN
          /\ c2s' = [c2s EXCEPT ![c] = Drop(@, o.n)]
          /\ clean' = [clean EXCEPT ![c] = @ /\ Whole(o, c2s[c], 6)]
          /\ first_read' = [first_read EXCEPT ![c] = [kind |-> o.kind, data |-> data]]
          /\ IF o.kind = "data" /\ init_ok(data)
             THEN /\ n_blocks' = [n_blocks EXCEPT ![c] = p.num]
                  /\ wpc' = [wpc EXCEPT ![c] = "send_agree"]
                  /\ UNCHANGED <<result, cause>>
             ELSE /\ Fail(c, IF o.kind = "err" THEN "recv" ELSE "init")
                  /\ UNCHANGED n_blocks
    /\ UNCHANGED <<block_index, header, length, text_data, s_sent, reqs>>
    /\ UNCHANGED <<clientVars, status, s2c, cclosed, sclosed, globalVars, raw_sends>>
    /\ UNCHANGED <<shutdownVars, codec>>

\* 2. send the Agree.
WorkerSendAgree(c) ==
    /\ wpc[c] = "send_agree"
    /\ \E o \in ConnSend(c) :
          IF o = "ok"
          THEN /\ s2c' = [s2c EXCEPT ![c] = Queue(@, server_create_packet_agree, cclosed[c])]
               /\ s_sent' = [s_sent EXCEPT ![c] = Append(@, server_create_packet_agree)]
               /\ block_index' = [block_index EXCEPT ![c] = 0]
               /\ wpc' = [wpc EXCEPT ![c] = "loop"]
               /\ UNCHANGED <<result, cause>>
          ELSE /\ Fail(c, "send")
               /\ UNCHANGED <<s2c, s_sent, block_index>>
    /\ UNCHANGED <<n_blocks, header, length, text_data, first_read, reqs>>
    /\ UNCHANGED <<clientVars, status, c2s, cclosed, sclosed, globalVars, raw_sends, clean>>
    /\ UNCHANGED <<shutdownVars, codec>>

\* range(n_blocks + 1)
loop_done_late(c) == block_index[c] > n_blocks[c]

\* for block_index in range(n_blocks): the loop is exhausted.
loop_done(c) == block_index[c] >= n_blocks[c]

\* The block loop does not look at the flag.
WorkerLoopNoCheck(c) ==
    /\ wpc[c] = "loop"
    /\ IF loop_done(c)
       THEN /\ wpc' = [wpc EXCEPT ![c] = "finally"]
            /\ result' = [result EXCEPT ![c] = "done"]
            /\ UNCHANGED cause
       ELSE /\ wpc' = [wpc EXCEPT ![c] = "recv_hdr"]
            /\ UNCHANGED <<result, cause>>
    /\ UNCHANGED <<n_blocks, block_index, header, length, text_data,
                   s_sent, first_read, reqs>>
    /\ UNCHANGED <<clientVars, netVars, globalVars, raw_sends, clean>>
    /\ UNCHANGED <<shutdownVars, codec>>

\* 3. top of the block loop: the loop ends after n_blocks blocks, or breaks
\* when the server is shutting down.
WorkerLoop(c) ==
    /\ wpc[c] = "loop"
    /\ IF loop_done(c)
       THEN /\ wpc' = [wpc EXCEPT ![c] = "finally"]
            /\ result' = [result EXCEPT ![c] = "done"]
            /\ UNCHANGED cause
       ELSE IF ~server_running
       THEN Fail(c, "shutdown")
       ELSE /\ wpc' = [wpc EXCEPT ![c] = "recv_hdr"]
            /\ UNCHANGED <<result, cause>>
    /\ UNCHANGED <<n_blocks, block_index, header, length, text_data,
                   s_sent, first_read, reqs>>
    /\ UNCHANGED <<clientVars, netVars, globalVars, raw_sends, clean>>
    /\ UNCHANGED <<shutdownVars, codec>>

\* recv(6) for the request header; a short one breaks.
WorkerRecvHeader(c) ==
    /\ wpc[c] = "recv_hdr"
    /\ \E o \in ConnRecv(c, 6) :
          LET data == Take(c2s[c], o.n) IN
          /\ c2s' = [c2s EXCEPT ![c] = Drop(@, o.n)]
          /\ clean' = [clean EXCEPT ![c] = @ /\ Whole(o, c2s[c], 6)]
          /\ IF o.kind = "data" /\ Len(data) >= 6
             THEN /\ header' = [header EXCEPT ![c] = data]
                  /\ length' = [length EXCEPT ![c] = UnpackI(Slice(data, 2, 6))]
                  /\ text_data' = [text_data EXCEPT ![c] = <<>>]
                  /\ wpc' = [wpc EXCEPT ![c] = "body"]
                  /\ UNCHANGED <<result, cause>>
             ELSE /\ Fail(c, IF o.kind = "err" THEN "recv" ELSE "header")
                  /\ UNCHANGED <<header, length, text_data>>
    /\ UNCHANGED <<n_blocks, block_index, s_sent, first_read, reqs>>
    /\ UNCHANGED <<clientVars, status, s2c, cclosed, sclosed, globalVars, raw_sends>>
    /\ UNCHANGED <<shutdownVars, codec>>

\* The request to answer, as parsed from the header and the payload read.
Request(c) == server_parse_packet(header[c] \o text_data[c])

\* Top of the payload loop: with the payload complete the request is parsed;
\* otherwise the loop goes on unless the server is shutting down.
WorkerBody(c) ==
    /\ wpc[c] = "body"
    /\ IF Len(text_data[c]) < length[c]
       THEN /\ IF ~server_running
               THEN Fail(c, "shutdown")
               ELSE /\ wpc' = [wpc EXCEPT ![c] = "body_recv"]
                    /\ UNCHANGED <<result, cause>>
            /\ UNCHANGED reqs
       ELSE /\ reqs' = [reqs EXCEPT ![c] = @ + 1]
            /\ IF TypeIs(Request(c), REVERSE_REQUEST)
               THEN /\ wpc' = [wpc EXCEPT ![c] = "send_answer"]
                    /\ UNCHANGED <<result, cause>>
               ELSE Fail(c, IF Request(c).raised THEN "decode" ELSE "type")
    /\ UNCHANGED <<n_blocks, block_index, header, length, text_data, s_sent, first_read>>
    /\ UNCHANGED <<clientVars, netVars, globalVars, raw_sends, clean>>
    /\ UNCHANGED <<shutdownVars, codec>>

\* recv of the rest of the payload; b'' (the peer closed) leaves it incomplete.
WorkerRecvBody(c) ==
    /\ wpc[c] = "body_recv"
    /\ \E o \in ConnRecv(c, length[c] - Len(text_data[c])) :
          /\ c2s' = [c2s EXCEPT ![c] = Drop(@, o.n)]
          /\ clean' = [clean EXCEPT ![c] = @ /\ o.kind = "data"]
          /\ IF o.kind = "data"
             THEN /\ text_data' = [text_data EXCEPT ![c] = @ \o Take(c2s[c], o.n)]
                  /\ wpc' = [wpc EXCEPT ![c] = "body"]
                  /\ UNCHANGED <<result, cause>>
             ELSE /\ Fail(c, IF o.kind = "err" THEN "recv" ELSE "body")
                  /\ UNCHANGED text_data
    /\ UNCHANGED <<n_blocks, block_index, header, length, s_sent, first_read, reqs>>
    /\ UNCHANGED <<clientVars, status, s2c, cclosed, sclosed, globalVars, raw_sends>>
    /\ UNCHANGED <<shutdownVars, codec>>

\* The text is sent back as it came.
reversed_text_same(c) == Request(c).text

\* text[::-1].encode('ascii')
reversed_text(c) == Reverse(Request(c).text)

\* Send the Answer and go to the next block.
WorkerSendAnswer(c) ==
    /\ wpc[c] = "send_answer"
    /\ \E o \in ConnSend(c) :
          LET answer == server_create_packet_answer(reversed_text(c)) IN
          IF o = "ok"
          THEN /\ s2c' = [s2c EXCEPT ![c] = Queue(@, answer, cclosed[c])]
               /\ s_sent' = [s_sent EXCEPT ![c] = Append(@, answer)]
               /\ block_index' = [block_index EXCEPT ![c] = @ + 1]
               /\ wpc' = [wpc EXCEPT ![c] = "loop"]
               /\ UNCHANGED <<result, cause>>
          ELSE /\ Fail(c, "send")
               /\ UNCHANGED <<s2c, s_sent, block_index>>
    /\ UNCHANGED <<n_blocks, header, length, text_data, first_read, reqs>>
    /\ UNCHANGED <<clientVars, status, c2s, cclosed, sclosed, globalVars, raw_sends, clean>>
    /\ UNCHANGED <<shutdownVars, codec>>

\* finally: unregister the connection, close it, unregister the thread.
WorkerFinally(c) ==
    /\ wpc[c] = "finally"
    /\ client_connections' = Remove(client_connections, c)
    /\ sclosed' = [sclosed EXCEPT ![c] = TRUE]
    /\ client_threads' = Remove(client_threads, c)
    /\ wpc' = [wpc EXCEPT ![c] = "exited"]
    /\ UNCHANGED <<server_running, a_thread>>
    /\ UNCHANGED <<n_blocks, block_index, header, length, text_data,
                   s_sent, first_read, reqs, result, cause>>
    /\ UNCHANGED <<clientVars, status, c2s, s2c, cclosed, raw_sends, clean>>
    /\ UNCHANGED <<shutdownVars, codec>>

Worker(c) ==
    \/ WorkerStart(c) \/ WorkerRecvInit(c) \/ WorkerSendAgree(c) \/ WorkerLoop(c)
    \/ WorkerRecvHeader(c) \/ WorkerBody(c) \/ WorkerRecvBody(c)
    \/ WorkerSendAnswer(c) \/ WorkerFinally(c)

\* ----------------------------------------------------------------- shutdown
\* The members of a list.
Members(list) == {list[k] : k \in 1..Len(list)}

\* A worker thread that has been started and has not returned.
Alive(c) == wpc[c] \notin {"idle", "exited"}

\* SIGINT: the handler shutdown_server takes over the main thread, wherever the
\* accept loop is, and sets the flag.
Signal ==
    /\ spc = "run"
    /\ server_running' = FALSE
    /\ spc' = "copy_conns"
    /\ at_signal' = [c \in Conns |->
                       [wpc |-> wpc[c], sent |-> Len(s_sent[c]),
                        reqs |-> IF wpc[c] = "body" /\ Len(text_data[c]) >= length[c]
                                 THEN reqs[c] + 1 ELSE reqs[c],
                        begun |-> Alive(c) /\ (wpc[c] # "start" \/ c2s[c] # <<>>)]]
    /\ UNCHANGED <<client_connections, client_threads, a_thread, to_close, to_join, tracked>>
    /\ UNCHANGED <<clientVars, netVars, workerVars, raw_sends, clean, codec>>

\* The handler goes on to the joining without closing a connection.
ShutdownSkipClose ==
    /\ spc = "copy_conns"
    /\ to_close' = <<>>
    /\ tracked' = Members(client_connections)
    /\ spc' = "copy_threads"
    /\ UNCHANGED <<to_join, at_signal>>
    /\ UNCHANGED <<clientVars, netVars, serverVars, raw_sends, clean, codec>>

\* The closing loop drops each connection of the copy without closing it.
ShutdownForget ==
    /\ spc = "close"
    /\ IF to_close = <<>>
       THEN /\ spc' = "copy_threads"
            /\ UNCHANGED to_close
       ELSE /\ to_close' = Tail(to_close)
            /\ UNCHANGED spc
    /\ UNCHANGED <<to_join, tracked, at_signal>>
    /\ UNCHANGED <<clientVars, netVars, serverVars, raw_sends, clean, codec>>

\* for conn in client_connections[:] : the copy is taken.
ShutdownCopyConns ==
    /\ spc = "copy_conns"
    /\ to_close' = client_connections
    /\ tracked' = Members(client_connections)
    /\ spc' = "close"
    /\ UNCHANGED <<to_join, at_signal>>
    /\ UNCHANGED <<clientVars, netVars, serverVars, raw_sends, clean, codec>>

\* One iteration of the closing loop: conn.shutdown(SHUT_RDWR); conn.close().
\* On a connection its worker has closed already the shutdown raises and the
\* loop goes on.  (On a connection the peer has reset the shutdown raises too
\* and the close is left to the worker, whose recv or send raises as well; the
\* model closes it here.)  When the copy is exhausted the joining starts.
ShutdownClose ==
    /\ spc = "close"
    /\ IF to_close = <<>>
       THEN /\ spc' = "copy_threads"
            /\ UNCHANGED <<to_close, sclosed>>
       ELSE /\ sclosed' = [sclosed EXCEPT ![Head(to_close)] = TRUE]
            /\ to_close' = Tail(to_close)
            /\ UNCHANGED spc
    /\ UNCHANGED <<to_join, tracked, at_signal>>
    /\ UNCHANGED <<clientVars, status, c2s, s2c, cclosed, serverVars, raw_sends, clean, codec>>

\* for thread in client_threads[:] : the copy is taken.
ShutdownCopyThreads ==
    /\ spc = "copy_threads"
    /\ to_join' = client_threads
    /\ spc' = "join"
    /\ UNCHANGED <<to_close, tracked, at_signal>>
    /\ UNCHANGED <<clientVars, netVars, serverVars, raw_sends, clean, codec>>

\* One iteration of the joining loop: thread.join(timeout=5) returns when the
\* thread has ended or when the 5 seconds have passed.  When the copy is
\* exhausted sys.exit(0) raises SystemExit, start_server catches it and
\* returns: the main thread is done.
ShutdownJoin ==
    /\ spc = "join"
    /\ IF to_join = <<>>
       THEN /\ spc' = "main_done"
            /\ UNCHANGED to_join
       ELSE /\ to_join' = Tail(to_join)
            /\ UNCHANGED spc
    /\ UNCHANGED <<to_close, tracked, at_signal>>
    /\ UNCHANGED <<clientVars, netVars, serverVars, raw_sends, clean, codec>>

\* The interpreter ends the process once the main thread is done and every
\* thread created by threading.Thread (none of them a daemon) has returned;
\* the sockets still open go with the process.
ProcessExit ==
    /\ spc = "main_done"
    /\ \A c \in Conns : ~Alive(c)
    /\ spc' = "exited"
    /\ sclosed' = [c \in Conns |-> sclosed[c] \/ status[c] # "none"]
    /\ UNCHANGED <<to_close, to_join, tracked, at_signal>>
    /\ UNCHANGED <<clientVars, status, c2s, s2c, cclosed, serverVars, raw_sends, clean, codec>>

Handler == ShutdownCopyConns \/ ShutdownClose \/ ShutdownCopyThreads \/ ShutdownJoin

\* ------------------------------------------------------------ codecs in use
\* Block counts and payloads of the messages that can be built: counts that
\* reach into each byte of the 4-byte field, any ASCII text.
CodecCounts == (0..MaxCodecN) \cup {255, 256, 65535, 65536, 16777216, 2147483647}
CodecTexts == UNION {[1..k -> {0, 32, 97, 127}] : k \in 0..MaxCodecLen}

\* The sender builds a message with its create_packet.
CodecEncode ==
    /\ codec.kind = "none"
    /\ \/ \E n \in CodecCounts :
             codec' = [codec EXCEPT !.kind = "init", !.num = n,
                                    !.bytes = client_create_packet_init(n)]
       \/ \E t \in CodecTexts :
             codec' = [codec EXCEPT !.kind = "request", !.text = t,
                                    !.bytes = client_create_packet_request(t)]
       \/ codec' = [codec EXCEPT !.kind = "agree", !.bytes = server_create_packet_agree]
       \/ \E t \in CodecTexts :
             codec' = [codec EXCEPT !.kind = "answer", !.text = t,
                                    !.bytes = server_create_packet_answer(t)]
    /\ UNCHANGED <<clientVars, netVars, serverVars, raw_sends, clean, shutdownVars>>

\* The receiver applies its parse_packet to the first cut bytes of it.
CodecDecode ==
    /\ codec.kind # "none"
    /\ ~codec.decoded
    /\ \E cut \in 0..Len(codec.bytes) :
          LET data == Slice(codec.bytes, 0, cut) IN
          codec' = [codec EXCEPT !.cut = cut, !.decoded = TRUE,
                                 !.out = IF codec.kind \in {"init", "request"}
                                         THEN server_parse_packet(data)
                                         ELSE client_parse_packet(data)]
    /\ UNCHANGED <<clientVars, netVars, serverVars, raw_sends, clean, shutdownVars>>

\* ---------------------------------------------------------------- raw peers
\* A raw peer writes arbitrary frames: a 6-byte header with one of the given
\* tags and a small length or count, a bare 2-byte tag, or a few payload
\* bytes (ASCII or not).  It writes the next frame once the previous one has
\* been read (the reader sees a stream only through the prefixes its recv
\* calls return, so writing ahead shows it nothing more), and it may close at
\* any time.
RawFrames(tags, bytes) ==
    {PackH(t) \o PackI(n) : t \in tags, n \in 0..MaxRawLen}
        \cup {PackH(t) : t \in tags}
        \cup UNION {[1..k -> bytes] : k \in 1..MaxRawLen}

\* A raw client on connection c2, talking to the server.
RawConnect ==
    /\ status["c2"] = "none"
    /\ status' = [status EXCEPT !["c2"] = "pending"]
    /\ UNCHANGED <<clientVars, c2s, s2c, cclosed, sclosed, serverVars, raw_sends, clean>>
    /\ UNCHANGED <<shutdownVars, codec>>

RawSend(frames, budget) ==
    /\ status["c2"] # "none"
    /\ ~cclosed["c2"]
    /\ c2s["c2"] = <<>>
    /\ raw_sends < budget
    /\ \E f \in frames : c2s' = [c2s EXCEPT !["c2"] = Queue(@, f, sclosed["c2"])]
    /\ raw_sends' = raw_sends + 1
    /\ UNCHANGED <<clientVars, status, s2c, cclosed, sclosed, serverVars, clean>>
    /\ UNCHANGED <<shutdownVars, codec>>

RawClose ==
    /\ status["c2"] # "none"
    /\ ~cclosed["c2"]
    /\ cclosed' = [cclosed EXCEPT !["c2"] = TRUE]
    /\ UNCHANGED <<clientVars, status, c2s, s2c, sclosed, serverVars, raw_sends, clean>>
    /\ UNCHANGED <<shutdownVars, codec>>

\* A raw server on connection c1, talking to the client.
RawServerSend ==
    /\ status["c1"] = "pending"
    /\ ~sclosed["c1"]
    /\ s2c["c1"] = <<>>
    /\ raw_sends < MaxRawSends
    /\ \E f \in RawFrames({AGREE, REVERSE_ANSWER, REVERSE_REQUEST}, {97, 200}) :
          s2c' = [s2c EXCEPT !["c1"] = Queue(@, f, cclosed["c1"])]
    /\ raw_sends' = raw_sends + 1
    /\ UNCHANGED <<clientVars, status, c2s, cclosed, sclosed, serverVars, clean>>
    /\ UNCHANGED <<shutdownVars, codec>>

RawServerClose ==
    /\ status["c1"] = "pending"
    /\ ~sclosed["c1"]
    /\ sclosed' = [sclosed EXCEPT !["c1"] = TRUE]
    /\ UNCHANGED <<clientVars, status, c2s, s2c, cclosed, serverVars, raw_sends, clean>>
    /\ UNCHANGED <<shutdownVars, codec>>

\* ----------------------------------------------------------- specifications
Client ==
    \/ ClientValidate \/ ClientSplit \/ ClientConnect \/ ClientSendInit
    \/ ClientRecvAgree \/ ClientSendRequest \/ ClientRecvHeader \/ ClientRecvBody
    \/ ClientFinish

Server ==
    \/ \E c \in Conns : Accept(c)
    \/ AppendThread
    \/ \E c \in Conns : Worker(c)

\* The client against the server.
Init == InitWith(RunInputs)
Next == Client \/ Server
Spec == Init /\ [][Next]_vars

\* The server against a raw client.
InitServer == InitWith({Input(<<>>, <<1, 1>>)})
ServerFrames == RawFrames({INITIALIZATION, REVERSE_REQUEST, REVERSE_ANSWER}, {97, 98, 200})
NextServer == Server \/ RawConnect \/ RawSend(ServerFrames, MaxRawSends) \/ RawClose
SpecServer == InitServer /\ [][NextServer]_vars

\* The same, with the accept loop and the worker threads scheduled fairly; the
\* raw client may stay silent.
FairServer ==
    /\ WF_vars((\E c \in Conns : Accept(c)) \/ AppendThread)
    /\ \A c \in Conns : WF_vars(Worker(c))
SpecServerFair == InitServer /\ [][NextServer]_vars /\ FairServer

\* The client and a raw client served concurrently.  The raw client sends
\* Init and Request headers that declare a count or a payload, and no payload
\* before it closes.  Only the steps that keep the client's own connection free
\* of transport faults are taken: the raw peer's connection is the one that
\* fails.
IsoInputs == {Input(t, <<1, 1>>) : t \in {<<>>, <<97, 98>>}}
IsoFrames == {PackH(t) \o PackI(n) : t \in {INITIALIZATION, REVERSE_REQUEST}, n \in {1, 2}}
InitIso == InitWith(IsoInputs)
NextIso ==
    \/ Client /\ clean'["c1"]
    \/ Server /\ clean'["c1"]
    \/ RawConnect \/ RawSend(IsoFrames, MaxIsoSends) \/ RawClose
SpecIso == InitIso /\ [][NextIso]_vars

\* A raw client served by a server that receives a termination signal at any
\* time.  The worker threads, the signal handler and the accept loop are
\* scheduled fairly; the signal and the raw peer's steps may never come.
InitShutdown == InitWith({Input(<<>>, <<1, 1>>)})
ShutdownFrames ==
    {PackH(INITIALIZATION) \o PackI(n) : n \in (MaxShutBlocks - 1)..MaxShutBlocks}
        \cup {PackH(REVERSE_REQUEST) \o PackI(n) : n \in 0..1}
        \cup {<<97>>}
NextShutdown ==
    \/ Server
    \/ RawConnect \/ RawSend(ShutdownFrames, MaxShutSends) \/ RawClose
    \/ Signal \/ Handler \/ ProcessExit
FairShutdown == FairServer /\ WF_vars(Handler \/ ProcessExit)
SpecShutdown == InitShutdown /\ [][NextShutdown]_vars /\ FairShutdown

\* The codecs alone: a message is encoded by one side and decoded, whole or
\* cut short, by the other.
InitCodec == InitWith({Input(<<>>, <<1, 1>>)})
NextCodec == CodecEncode \/ CodecDecode
SpecCodec == InitCodec /\ [][NextCodec]_vars

\* The client against the server on a fault-free transport: no timeout, no
\* error, every recv returns all that was asked for; both programs run.
NextProgress ==
    \/ Client /\ clean'["c1"]
    \/ Server /\ clean'["c1"]
FairProgress ==
    /\ WF_vars(Client /\ clean'["c1"])
    /\ WF_vars(Server /\ clean'["c1"])
SpecProgress == Init /\ [][NextProgress]_vars /\ FairProgress

\* The client against a raw server.
InitClient == InitWith({in \in RunInputs : Len(in.content) <= MaxLen})
NextClient == Client \/ RawServerSend \/ RawServerClose
SpecClient == InitClient /\ [][NextClient]_vars

\* The chunking alone.
InitSplit == InitWith(SplitInputs)
NextSplit == ClientValidate \/ ClientSplit
SpecSplit == InitSplit /\ [][NextSplit]_vars /\ WF_vars(NextSplit)

\* --------------------------------------------------------------- properties
Received == {k \in 1..Len(reversed_blocks) : ~reversed_blocks[k].isNone}
RequestsSent == IF c_sent = <<>> THEN 0 ELSE Len(c_sent) - 1

\* C1: the output file is written only when the handshake succeeded and every
\* chunk index holds a received result; a run that ended after a failed
\* handshake or a failed chunk exchange has written no output, whatever it
\* had stored for earlier chunks.
C1_AllOrNothing ==
    /\ output.written =>
          /\ cpc = "end"
          /\ agree_seen
          /\ Received = 1..Len(blocks)
          /\ Len(reversed_blocks) = Len(blocks)
    /\ (cpc = "end" /\ (~agree_seen \/ Received # 1..Len(blocks))) => ~output.written

\* A run that stored the first of two results, failed on the second and ended
\* without output.
C1_Witness ==
    /\ cpc = "end"
    /\ Len(blocks) = 2
    /\ Received = {1}
    /\ ~output.written

\* r is s read backwards.
IsReversalOf(r, s) == Len(r) = Len(s) /\ \A j \in 1..Len(s) : r[j] = s[Len(s) + 1 - j]

RECURSIVE Offset(_)
\* Where chunk k starts in the text: the lengths of the chunks before it.
Offset(k) == IF k <= 1 THEN 0 ELSE Offset(k - 1) + Len(blocks[k - 1])

\* C2: a run against the server that wrote its output wrote, at the place of
\* each chunk of the text, that chunk reversed on its own; "hello world" split
\* 5 by 5 gives "ollehlrow d".
C2_EndToEnd ==
    output.written =>
       /\ Len(reversed_blocks) = Len(blocks)
       /\ \A k \in 1..Len(blocks) : IsReversalOf(reversed_blocks[k].text, blocks[k])
       /\ Len(output.text) = Len(content)
       /\ \A k \in 1..Len(blocks) : \A j \in 1..Len(blocks[k]) :
             output.text[Offset(k) + j] = content[Offset(k) + Len(blocks[k]) + 1 - j]
       /\ (content = Hello /\ Lmin = 5 /\ Lmax = 5) =>
             output.text = <<111, 108, 108, 101, 104, 108, 114, 111, 119, 32, 100>>

\* The "hello world" run has written its output, which is not the whole text
\* reversed.
C2_Witness ==
    /\ content = Hello
    /\ output.written
    /\ Len(blocks) = 3
    /\ ~IsReversalOf(output.text, content)

\* C3: the splitting loop terminates, and on its exit the chunks are non-empty,
\* all but the last have a length in [Lmin, Lmax], the last one in [1, Lmax],
\* and they concatenate to the text (no chunk for the empty text).
ChunksCover ==
    /\ \A k \in 1..Len(blocks) : Len(blocks[k]) >= 1 /\ Len(blocks[k]) <= Lmax
    /\ \A k \in 1..(Len(blocks) - 1) : Len(blocks[k]) >= Lmin
    /\ Concat(blocks) = content
    /\ content = <<>> => blocks = <<>>
C3_ChunkCoverage ==
    /\ [](cpc = "connect" => ChunksCover)
    /\ [](cpc = "split" => Concat(blocks) = Slice(content, 0, start_index))
    /\ (cpc = "split") ~> (cpc = "connect")

\* The loop has ended with a last chunk shorter than Lmin.
C3_Witness ==
    /\ cpc = "connect"
    /\ Len(blocks) >= 2
    /\ Len(blocks[Len(blocks)]) < Lmin
    /\ Len(blocks[1]) < Lmax

\* C4: the first packet the client sends is its Init; it sends a Request, and
\* is anywhere in the chunk loop, only after it has received an Agree; a run
\* that ended without an Agree has sent no Request.
C4_HandshakeGate ==
    /\ c_sent # <<>> => c_sent[1] = <<0, 1>> \o PackI(Len(blocks))
    /\ \A k \in 2..Len(c_sent) : SubSeq(c_sent[k], 1, 2) = <<0, 3>>
    /\ RequestsSent > 0 => agree_seen
    /\ cpc \in {"send_req", "recv_hdr", "recv_body", "finish"} => agree_seen
    /\ agree_seen => c_sent # <<>>
    /\ (cpc = "end" /\ ~agree_seen) => (RequestsSent = 0 /\ ~output.written)

\* A run with chunks to send that ended after its Init without an Agree.
C4_Witness ==
    /\ cpc = "end"
    /\ ~agree_seen
    /\ Len(c_sent) = 1
    /\ blocks # <<>>
    /\ clean["c1"] = FALSE

\* C5: the Requests go out in index order, each carrying its chunk; the results
\* stored are those of the indices before i; the Request for the next index is
\* sent only with the Answer to the previous one received in full (6 header
\* bytes and the payload they declare) and stored, so that at most one Request
\* is without its stored result.
C5_NoPipelining ==
    /\ \A k \in 1..RequestsSent :
          /\ k <= Len(blocks)
          /\ c_sent[k + 1] = <<0, 3>> \o PackI(Len(blocks[k])) \o blocks[k]
    /\ Received = 1..i
    /\ RequestsSent <= i + 1
    /\ cpc = "send_req" => RequestsSent = i
    /\ cpc \in {"recv_hdr", "recv_body"} => RequestsSent = i + 1
    /\ (cpc = "send_req" /\ i > 0) =>
          /\ Len(c_header) = 6
          /\ Len(reversed_data) = UnpackI(SubSeq(c_header, 3, 6))
          /\ reversed_blocks[i].text = reversed_data

\* The second Request is about to be sent, the first Answer stored.
C5_Witness ==
    /\ cpc = "recv_hdr"
    /\ i = 1
    /\ RequestsSent = 2
    /\ reversed_blocks[1].text # <<>>

AnswersSent(c) == IF s_sent[c] = <<>> THEN 0 ELSE Len(s_sent[c]) - 1
PastFirstRead(c) == wpc[c] \notin {"idle", "start", "recv_init"}
\* The first recv returned the 6 bytes of an Init.
WellFormedInit(fr) == fr.kind = "data" /\ Len(fr.data) = 6 /\ SubSeq(fr.data, 1, 2) = <<0, 1>>

\* C6: a session has sent something only if its first read returned a
\* well-formed Init, and what it sent first is the Agree; after such a first
\* read the Agree is sent (unless the write itself fails); after any other first
\* read the session has failed, has sent nothing, and ends closed.
C6_ServerHandshake ==
    \A c \in Conns :
       /\ s_sent[c] # <<>> =>
             /\ PastFirstRead(c)
             /\ WellFormedInit(first_read[c])
             /\ s_sent[c][1] = <<0, 2>>
             /\ n_blocks[c] = UnpackI(SubSeq(first_read[c].data, 3, 6))
       /\ (PastFirstRead(c) /\ WellFormedInit(first_read[c]) /\ wpc[c] # "send_agree") =>
             (s_sent[c] # <<>> \/ cause[c] = "send")
       /\ (PastFirstRead(c) /\ ~WellFormedInit(first_read[c])) =>
             /\ result[c] = "failed"
             /\ wpc[c] \in {"finally", "exited"}
             /\ s_sent[c] = <<>> /\ s2c[c] = <<>>
       /\ wpc[c] = "exited" => sclosed[c]

\* A first message of 6 bytes with the tag of a Request: failed, closed,
\* nothing sent.
C6_Witness ==
    /\ first_read["c2"].kind = "data"
    /\ Len(first_read["c2"].data) = 6
    /\ SubSeq(first_read["c2"].data, 1, 2) = <<0, 3>>
    /\ wpc["c2"] = "exited"
    /\ sclosed["c2"]
    /\ s2c["c2"] = <<>>

\* C7: what a session sends is one Agree followed by Answers only; it has sent
\* no more Answers than it has completely received Requests, and no more than
\* n; it is at most one Request ahead of its Answers; it is Done only with n
\* Requests received and n Answers sent.
C7_ServerOrder ==
    \A c \in Conns :
       /\ \A k \in 1..Len(s_sent[c]) :
             SubSeq(s_sent[c][k], 1, 2) = IF k = 1 THEN <<0, 2>> ELSE <<0, 4>>
       /\ AnswersSent(c) <= reqs[c]
       /\ reqs[c] <= AnswersSent(c) + 1
       /\ AnswersSent(c) <= n_blocks[c]
       /\ s_sent[c] # <<>> => AnswersSent(c) = block_index[c]
       /\ result[c] = "done" =>
             /\ s_sent[c] # <<>>
             /\ AnswersSent(c) = n_blocks[c]
             /\ reqs[c] = n_blocks[c]
       /\ (result[c] = "done" /\ wpc[c] = "exited") => sclosed[c]

\* A session of two chunks is Done and closed.
C7_Witness ==
    /\ result["c2"] = "done"
    /\ wpc["c2"] = "exited"
    /\ n_blocks["c2"] = 2
    /\ Len(s_sent["c2"]) = 3

\* C8: right after an Answer is written it is the last packet sent, it has the
\* tag 4, the length of the payload of the Request just read, and that payload
\* backwards; the block index has advanced to the number of Answers sent.
C8_ServerReversal ==
    \A c \in Conns :
       /\ (wpc[c] \in {"loop", "recv_hdr"} /\ block_index[c] > 0) =>
             LET last == s_sent[c][Len(s_sent[c])] IN
             /\ SubSeq(header[c], 1, 2) = <<0, 3>>
             /\ UnpackI(SubSeq(header[c], 3, 6)) = Len(text_data[c])
             /\ SubSeq(last, 1, 2) = <<0, 4>>
             /\ UnpackI(SubSeq(last, 3, 6)) = Len(text_data[c])
             /\ IsReversalOf(SubSeq(last, 7, Len(last)), text_data[c])
             /\ Len(s_sent[c]) = block_index[c] + 1
       /\ wpc[c] = "send_answer" => Len(s_sent[c]) = block_index[c] + 1

\* The Request "ab" has just been answered "ba".
C8_Witness ==
    /\ wpc["c2"] = "loop"
    /\ block_index["c2"] = 1
    /\ text_data["c2"] = <<97, 98>>
    /\ s_sent["c2"][2] = <<0, 4, 0, 0, 0, 2, 98, 97>>

\* C9: a failed session is on its way out or out; it has sent no Answer for the
\* chunk it failed on; once failed it stays failed, sends nothing, reads
\* nothing and receives no Request; when it has exited its connection is closed
\* and unregistered.
FailedState(c) ==
    result[c] = "failed" =>
       /\ wpc[c] \in {"finally", "exited"}
       /\ AnswersSent(c) = (IF s_sent[c] = <<>> THEN 0 ELSE block_index[c])
       /\ s_sent[c] # <<>> => block_index[c] < n_blocks[c]
       /\ wpc[c] = "exited" =>
             /\ sclosed[c]
             /\ \A k \in 1..Len(client_connections) : client_connections[k] # c
FailedStep(c) ==
    result[c] = "failed" =>
       /\ result'[c] = "failed"
       /\ wpc'[c] \in {"finally", "exited"}
       /\ s_sent'[c] = s_sent[c] /\ s2c'[c] = s2c[c]
       /\ Len(c2s'[c]) >= Len(c2s[c])
       /\ reqs'[c] = reqs[c] /\ block_index'[c] = block_index[c]
       /\ header'[c] = header[c] /\ text_data'[c] = text_data[c]
C9_FailedAbsorbing ==
    /\ [](\A c \in Conns : FailedState(c))
    /\ [][\A c \in Conns : FailedStep(c)]_vars

\* A session that failed on a non-ASCII payload after its Agree, exited.
C9_Witness ==
    /\ result["c2"] = "failed"
    /\ cause["c2"] = "decode"
    /\ wpc["c2"] = "exited"
    /\ s_sent["c2"] = <<(<<0, 2>>)>>

\* C10: whatever the raw peer's session does, the session of the client (whose
\* own connection has no transport fault) does not fail: the server sends it
\* the Agree and then the Answer to each chunk in order, n at the most; when
\* the session is Done it has sent all n; when the client has ended it has
\* stored the n reversed chunks and written its output.
C10_Isolation ==
    /\ result["c1"] # "failed"
    /\ Len(s_sent["c1"]) <= Len(blocks) + 1
    /\ \A k \in 1..Len(s_sent["c1"]) :
          IF k = 1 THEN s_sent["c1"][k] = <<0, 2>>
          ELSE /\ SubSeq(s_sent["c1"][k], 1, 6) = <<0, 4>> \o PackI(Len(blocks[k - 1]))
               /\ IsReversalOf(SubSeq(s_sent["c1"][k], 7, Len(s_sent["c1"][k])), blocks[k - 1])
    /\ result["c1"] = "done" => Len(s_sent["c1"]) = Len(blocks) + 1
    /\ cpc = "end" =>
          /\ agree_seen
          /\ output.written
          /\ \A k \in 1..Len(blocks) : IsReversalOf(reversed_blocks[k].text, blocks[k])

\* The raw peer's session failed on a Request cut short by the close, while
\* the client's run of two chunks succeeded and its session is Done.
C10_Witness ==
    /\ result["c2"] = "failed"
    /\ cause["c2"] = "body"
    /\ result["c1"] = "done"
    /\ Len(blocks) = 2
    /\ cpc = "end"
    /\ output.written

\* The handler has begun, or is past, the wait for the workers.
Joining == spc \in {"copy_threads", "join", "main_done", "exited"}

\* C11: the handler sets the flag before anything else; while it closes the
\* tracked connections it joins nothing; when it starts waiting for the workers
\* every tracked connection has been closed; and with the flag set no
\* connection is accepted and no worker is started.
C11_Order ==
    /\ spc # "run" => ~server_running
    /\ spc \in {"run", "copy_conns", "close"} => to_join = <<>>
    /\ spc = "close" => \A c \in tracked \ Members(to_close) : sclosed[c]
    /\ Joining => (to_close = <<>> /\ \A c \in tracked : sclosed[c])
C11_Step ==
    /\ (spc = "run" /\ spc' # "run") =>
          (~server_running' /\ sclosed' = sclosed /\ to_join' = <<>>)
    /\ ~server_running =>
          \A c \in Conns :
             /\ status'[c] = "accepted" => status[c] = "accepted"
             /\ Alive(c)' => Alive(c)
MidExchange(c) == spc # "run" /\ at_signal[c].begun
\* The worker had registered the connection and had not reached its finally
\* block.
Registered(c) ==
    spc # "run" /\ at_signal[c].wpc \notin {"idle", "start", "finally", "exited"}
\* s ends with t.
IsSuffix(t, s) == Len(t) <= Len(s) /\ SubSeq(s, Len(s) - Len(t) + 1, Len(s)) = t
\* What the client has still to read is the end of the packets sent to it.
WireWhole(c) == ~cclosed[c] => IsSuffix(s2c[c], Concat(s_sent[c]))

C13_ShutdownTerminates == (spc # "run") ~> (spc = "exited")

\* The message that was encoded, as a parse result.
Encoded ==
    CASE codec.kind = "init" -> ParseNum(INITIALIZATION, codec.num)
      [] codec.kind = "request" -> ParseText(REVERSE_REQUEST, codec.text)
      [] codec.kind = "agree" -> ParseNum(AGREE, 0)
      [] codec.kind = "answer" -> ParseText(REVERSE_ANSWER, codec.text)
      [] OTHER -> ParseNone

\* C14: the receiver's parse_packet gives back the type and value of a message
\* encoded by the sender's create_packet, and gives (None, None), without
\* raising, on every strict prefix of the encoding.
C14_RoundTrip ==
    codec.decoded =>
       /\ codec.cut = Len(codec.bytes) => (codec.out = Encoded /\ ~codec.out.none)
       /\ codec.cut < Len(codec.bytes) => codec.out = ParseNone
       /\ ~codec.out.raised

\* An Answer of two characters cut after its first payload byte.
C14_Witness ==
    /\ codec.decoded
    /\ codec.kind = "answer"
    /\ codec.text = <<97, 32>>
    /\ codec.cut = 7
    /\ codec.out = ParseNone

\* C15: a text with a character outside 32..126 takes the client from its
\* check to exit(1) and nowhere else: no connection is made, nothing is sent,
\* no output is written; and only such a text ends in exit(1).
C15_ValidationFirst ==
    /\ (\E k \in 1..Len(content) : content[k] < 32 \/ content[k] > 126) =>
          /\ cpc \in {"validate", "exit1"}
          /\ status["c1"] = "none"
          /\ c_sent = <<>> /\ c2s["c1"] = <<>>
          /\ ~cclosed["c1"]
          /\ ~output.written
          /\ blocks = <<>>
    /\ cpc = "exit1" => (\E k \in 1..Len(content) : content[k] < 32 \/ content[k] > 126)

\* The text "a\n" has been rejected.
C15_Witness ==
    /\ cpc = "exit1"
    /\ content = <<97, 10>>
    /\ status["c1"] = "none"

\* Answers sent when the flag was set.
AnswersAtSignal(c) == IF at_signal[c].sent = 0 THEN 0 ELSE at_signal[c].sent - 1
\* When the flag was set the worker had a chunk in hand: it had passed the
\* check at the top of the block loop and not yet sent the Answer.
ChunkInHand(c) == at_signal[c].wpc \in {"recv_hdr", "body", "body_recv", "send_answer"}
\* When the flag was set the worker was in the block loop.
InLoopAtSignal(c) == at_signal[c].wpc = "loop" \/ ChunkInHand(c)

\* C16 as stated: with the flag set, a session in the block loop that has
\* chunks left beyond the Requests it had fully received sends no Answer beyond
\* those Requests and does not reach Done.
C16_NoNewWork ==
    \A c \in Conns :
       (spc # "run" /\ InLoopAtSignal(c) /\ n_blocks[c] > at_signal[c].reqs) =>
          /\ AnswersSent(c) <= at_signal[c].reqs
          /\ result[c] # "done"

\* C16, amended: the flag takes effect at the worker's next check.  With the
\* flag set, a worker that reaches the top of the block loop with chunks left,
\* or the top of the payload loop with payload missing, stops there, Failed,
\* having sent nothing more; up to that check it may finish the chunk it had in
\* hand, so a session receives at most one more Request and sends at most one
\* more Answer, none if it had no chunk in hand, and it reaches Done only if
\* that chunk was its last.
C16_State ==
    \A c \in Conns :
       spc # "run" =>
          /\ AnswersSent(c) <= AnswersAtSignal(c) + 1
          /\ reqs[c] <= at_signal[c].reqs + 1
          /\ ~ChunkInHand(c) => AnswersSent(c) = AnswersAtSignal(c)
          /\ (result[c] = "done" /\ Alive(c) /\ at_signal[c].wpc # "finally") =>
                n_blocks[c] <= AnswersAtSignal(c) + 1
C16_Check ==
    \A c \in Conns :
       (/\ ~server_running
        /\ wpc'[c] # wpc[c]
        /\ \/ wpc[c] = "loop" /\ block_index[c] < n_blocks[c]
           \/ wpc[c] = "body" /\ Len(text_data[c]) < length[c]) =>
          /\ wpc'[c] = "finally"
          /\ result'[c] = "failed" /\ cause'[c] = "shutdown"
          /\ s_sent'[c] = s_sent[c] /\ c2s'[c] = c2s[c]
C16_FlagAtChecks == []C16_State /\ [][C16_Check]_vars

\* The flag was set while the worker waited for the payload of the first of
\* two Requests; the payload came, the Answer was sent, and the session then
\* stopped at the top of the loop.
C16_Witness ==
    /\ spc # "run"
    /\ at_signal["c2"].wpc = "body_recv"
    /\ at_signal["c2"].reqs = 0
    /\ n_blocks["c2"] = 2
    /\ AnswersSent("c2") = 1
    /\ result["c2"] = "failed"
    /\ cause["c2"] = "shutdown"

\* C17: with no shutdown signal, every session of an accepted connection ends:
\* its worker returns and the connection is closed.
C17_ReadsTimeOut ==
    \A c \in Conns : (status[c] = "accepted") ~> (wpc[c] = "exited" /\ sclosed[c])

\* C18: a header read fails only when the peer has closed (the server's
\* sockets have no timeout): the session of the client, which writes every
\* Init and every Request whole, does not fail at the read of an Init or of a
\* Request header while the client is connected, in however many pieces the
\* transport delivers the header.
C18_ExactHeaders ==
    (result["c1"] = "failed" /\ cause["c1"] \in {"init", "header"}) => cclosed["c1"]

\* C19: once a worker has returned, neither its connection nor its thread is
\* in client_connections or client_threads.
C19_LiveEntries ==
    \A c \in Conns :
       wpc[c] = "exited" =>
          /\ c \notin Members(client_connections)
          /\ c \notin Members(client_threads)

\* Both ends of the run are through: the client has stored every result and
\* written the output, the session is Done after an Agree and n Answers, the
\* worker has returned and closed the connection.
Completed ==
    /\ cpc = "end"
    /\ Received = 1..Len(blocks)
    /\ output.written
    /\ Len(output.text) = Len(content)
    /\ result["c1"] = "done"
    /\ wpc["c1"] = "exited" /\ sclosed["c1"]
    /\ Len(s_sent["c1"]) = Len(blocks) + 1
    /\ s_sent["c1"][1] = <<0, 2>>

\* C20: on a fault-free transport and without a signal, a run that has passed
\* the input check and split the text completes, for the empty text as for any
\* other; on the way neither side fails.
C20_Progress ==
    /\ (cpc = "connect") ~> Completed
    /\ [](result["c1"] # "failed")
    /\ [](cpc = "end" => output.written)

\* The run of the empty text is complete: an Agree, no Answer, an empty output.
C20_Witness ==
    /\ Completed
    /\ content = <<>>
    /\ s_sent["c1"] = <<(<<0, 2>>)>>
    /\ output = [written |-> TRUE, text |-> <<>>]

====
